---- MODULE Spec2Model ----
(***************************************************************************)
(* A model of the two CV extraction pipelines of pdftable-runner:          *)
(*   extract_structured_cv.py             (the structural extractor, "v1") *)
(*   scripts/extract_structured_cv_v2.py  (the generic extractor, "v2")    *)
(*                                                                         *)
(* A Python str is a sequence of characters; a character is a one-letter   *)
(* TLA+ string.  The characters outside ASCII that the source names are    *)
(* written as the tokens LDQ, RDQ, RSQ, BUL, NDASH, MDASH, RAQ.            *)
(***************************************************************************)
EXTENDS Integers, Sequences, FiniteSets, TLC

(***************************************************************************)
(* Characters and character classes (Python's str methods and re classes,  *)
(* restricted to the characters listed here).                              *)
(***************************************************************************)
NL == "\n"
CR == "\r"
SP == " "
DQ == "\""
LDQ == "LDQ"
RDQ == "RDQ"
RSQ == "RSQ"
BUL == "BUL"
NDASH == "NDASH"
MDASH == "MDASH"
RAQ == "RAQ"

LowerSeq == << "a","b","c","d","e","f","g","h","i","j","k","l","m",
               "n","o","p","q","r","s","t","u","v","w","x","y","z" >>
UpperSeq == << "A","B","C","D","E","F","G","H","I","J","K","L","M",
               "N","O","P","Q","R","S","T","U","V","W","X","Y","Z" >>
Lower == { LowerSeq[i] : i \in DOMAIN LowerSeq }
Upper == { UpperSeq[i] : i \in DOMAIN UpperSeq }
Digit == { "0","1","2","3","4","5","6","7","8","9" }
Space == { SP, "\t", NL, CR }
Word  == Lower \cup Upper \cup Digit \cup { "_" }

ToLowerMap == [ c \in Upper |-> LowerSeq[CHOOSE i \in DOMAIN UpperSeq : UpperSeq[i] = c] ]
ToUpperMap == [ c \in Lower |-> UpperSeq[CHOOSE i \in DOMAIN LowerSeq : LowerSeq[i] = c] ]
LowerCh(c) == IF c \in Upper THEN ToLowerMap[c] ELSE c
UpperCh(c) == IF c \in Lower THEN ToUpperMap[c] ELSE c

\* str.lower()
lower(s) == [ i \in DOMAIN s |-> LowerCh(s[i]) ]

\* str.title(): a cased character is upper-cased after an uncased one (or
\* at the start) and lower-cased after a cased one.
title(s) == [ i \in DOMAIN s |->
                IF i > 1 /\ s[i-1] \in (Lower \cup Upper)
                  THEN LowerCh(s[i]) ELSE UpperCh(s[i]) ]

\* str.isupper(): at least one cased character and no lower-case one.
isupper(s) == /\ \E i \in DOMAIN s : s[i] \in Upper
              /\ \A i \in DOMAIN s : s[i] \notin Lower

\* str.istitle(): upper-case characters follow only uncased characters,
\* lower-case characters follow only cased ones, and one is cased.
istitle(s) == /\ \E i \in DOMAIN s : s[i] \in Upper
              /\ \A i \in DOMAIN s :
                   LET prevCased == i > 1 /\ s[i-1] \in (Lower \cup Upper)
                   IN  /\ s[i] \in Upper => ~prevCased
                       /\ s[i] \in Lower => prevCased

(***************************************************************************)
(* str helpers.                                                            *)
(***************************************************************************)
Drop(s, n) == SubSeq(s, n + 1, Len(s))
Take(s, n) == SubSeq(s, 1, n)

\* the number of leading / trailing characters of s that are in cs
RECURSIVE LeadRun(_, _, _)
LeadRun(s, cs, i) ==
  IF i <= Len(s) /\ s[i] \in cs THEN LeadRun(s, cs, i + 1) ELSE i - 1
RECURSIVE TrailRun(_, _, _)
TrailRun(s, cs, i) ==
  IF i >= 1 /\ s[i] \in cs THEN TrailRun(s, cs, i - 1) ELSE Len(s) - i

lstripSet(s, cs) == Drop(s, LeadRun(s, cs, 1))
rstripSet(s, cs) == Take(s, Len(s) - TrailRun(s, cs, Len(s)))
stripSet(s, cs)  == rstripSet(lstripSet(s, cs), cs)
lstrip(s) == lstripSet(s, Space)
rstrip(s) == rstripSet(s, Space)
strip(s)  == stripSet(s, Space)

\* w is a substring of s starting at position i
IsAt(s, w, i) == i >= 1 /\ i + Len(w) - 1 <= Len(s) /\ SubSeq(s, i, i + Len(w) - 1) = w
\* w in s
Contains(s, w) == \E i \in 1..(Len(s) + 1) : IsAt(s, w, i)
\* s.startswith(w)
startswith(s, w) == IsAt(s, w, 1)
\* the first position of w in s, 0 when there is none (str.find, 1-based)
find(s, w) == IF Contains(s, w)
                THEN CHOOSE i \in 1..(Len(s) + 1) :
                       IsAt(s, w, i) /\ \A j \in 1..(i - 1) : ~IsAt(s, w, j)
                ELSE 0

\* str.split(sep) for a one-character separator
RECURSIVE splitCh(_, _)
splitCh(s, c) ==
  LET k == find(s, <<c>>)
  IN  IF k = 0 THEN << s >> ELSE << Take(s, k - 1) >> \o splitCh(Drop(s, k), c)

\* sep.join(parts)
RECURSIVE join(_, _)
join(sep, parts) ==
  IF parts = << >> THEN << >>
  ELSE IF Len(parts) = 1 THEN parts[1]
  ELSE parts[1] \o sep \o join(sep, Tail(parts))

\* str.replace(old, new)
RECURSIVE replace(_, _, _)
replace(s, old, new) ==
  LET k == find(s, old)
  IN  IF k = 0 THEN s
      ELSE Take(s, k - 1) \o new \o replace(Drop(s, k + Len(old) - 1), old, new)

\* len(s.split()): the number of maximal runs of non-space characters
nwords(s) == Cardinality({ i \in DOMAIN s :
                             s[i] \notin Space /\ (i = 1 \/ s[i-1] \in Space) })

(***************************************************************************)
(* Regular expressions.  A pattern is a sequence of elements; an element   *)
(* is a character class with a repetition range (hi = -1: unbounded),      *)
(* greedy or lazy, or a zero-width test.  match tries the repetition       *)
(* counts of each element in the order Python's backtracking matcher       *)
(* does, so the first match found is the one re returns.                   *)
(***************************************************************************)
El(kind, cs, lo, hi, lazy) == [kind |-> kind, cs |-> cs, lo |-> lo, hi |-> hi, lazy |-> lazy]
One(cs)       == El("in", cs, 1, 1, FALSE)
Opt(cs)       == El("in", cs, 0, 1, FALSE)
Star(cs)      == El("in", cs, 0, -1, FALSE)
Plus(cs)      == El("in", cs, 1, -1, FALSE)
Rep(cs, a, b) == El("in", cs, a, b, FALSE)
NotOne(cs)      == El("notin", cs, 1, 1, FALSE)
NotPlus(cs)     == El("notin", cs, 1, -1, FALSE)
NotPlusLazy(cs) == El("notin", cs, 1, -1, TRUE)
WB  == El("wb", {}, 0, 0, FALSE)
EOS == El("eos", {}, 0, 0, FALSE)
\* $ under re.M
EOSM == El("eosm", {}, 0, 0, FALSE)
\* (?:[cs]|$)
OneOrEOS(cs) == El("inOrEos", cs, 0, 1, FALSE)
\* a literal word; with (?i), each letter in either case
Lit(w)  == [ i \in DOMAIN w |-> One({ w[i] }) ]
LitI(w) == [ i \in DOMAIN w |-> One({ LowerCh(w[i]), UpperCh(w[i]) }) ]

IsWordAt(s, i) == i >= 1 /\ i <= Len(s) /\ s[i] \in Word
\* \b at position i: between s[i-1] and s[i]
AtWB(s, i) == IsWordAt(s, i - 1) # IsWordAt(s, i)
\* $ (no re.M): at the end, or before a final newline
AtEOS(s, i) == i = Len(s) + 1 \/ (i = Len(s) /\ s[i] = NL)
\* $ under re.M: at the end, or before any newline
AtEOSM(s, i) == i = Len(s) + 1 \/ (i <= Len(s) /\ s[i] = NL)

ElOK(e, c) == IF e.kind = "in" THEN c \in e.cs ELSE c \notin e.cs

RECURSIVE RunLen(_, _, _, _)
RunLen(s, i, e, n) ==
  IF (e.hi = -1 \/ n < e.hi) /\ i + n <= Len(s) /\ ElOK(e, s[i + n])
    THEN RunLen(s, i, e, n + 1) ELSE n

\* match(pat, k, s, i): elements k.. of pat matched at position i of s:
\* << >> when they do not match, else the start of every element from k
\* on, followed by the end of the match.
RECURSIVE match(_, _, _, _)
RECURSIVE TryCount(_, _, _, _, _, _)
match(pat, k, s, i) ==
  IF k > Len(pat) THEN << i >>
  ELSE LET e == pat[k] IN
    IF e.kind \in { "wb", "eos", "eosm" } THEN
      IF \/ e.kind = "wb" /\ AtWB(s, i)
         \/ e.kind = "eos" /\ AtEOS(s, i)
         \/ e.kind = "eosm" /\ AtEOSM(s, i)
        THEN LET r == match(pat, k + 1, s, i)
             IN  IF r = << >> THEN << >> ELSE << i >> \o r
        ELSE << >>
    ELSE IF e.kind = "inOrEos" THEN
      LET r1 == IF i <= Len(s) /\ s[i] \in e.cs THEN match(pat, k + 1, s, i + 1) ELSE << >>
          r2 == IF AtEOS(s, i) THEN match(pat, k + 1, s, i) ELSE << >>
      IN  IF r1 # << >> THEN << i >> \o r1
          ELSE IF r2 # << >> THEN << i >> \o r2 ELSE << >>
    ELSE LET mx == RunLen(s, i, e, 0) IN
      IF mx < e.lo THEN << >>
      ELSE TryCount(pat, k, s, i, IF e.lazy THEN e.lo ELSE mx, mx)
TryCount(pat, k, s, i, n, mx) ==
  LET r == match(pat, k + 1, s, i + n) IN
  IF r # << >> THEN << i >> \o r
  ELSE IF pat[k].lazy
    THEN IF n >= mx THEN << >> ELSE TryCount(pat, k, s, i, n + 1, mx)
    ELSE IF n <= pat[k].lo THEN << >> ELSE TryCount(pat, k, s, i, n - 1, mx)

\* re.match with alternatives pats (the first alternative that matches)
RECURSIVE matchAlt(_, _, _, _)
matchAlt(pats, a, s, i) ==
  IF a > Len(pats) THEN [alt |-> 0, at |-> << >>]
  ELSE LET r == match(pats[a], 1, s, i)
       IN  IF r # << >> THEN [alt |-> a, at |-> r] ELSE matchAlt(pats, a + 1, s, i)

\* re.search: the leftmost position where an alternative matches
RECURSIVE searchFrom(_, _, _)
searchFrom(pats, s, i) ==
  IF i > Len(s) + 1 THEN [alt |-> 0, at |-> << >>]
  ELSE LET r == matchAlt(pats, 1, s, i)
       IN  IF r.alt # 0 THEN r ELSE searchFrom(pats, s, i + 1)
search(pats, s) == searchFrom(pats, s, 1)
found(m) == m.alt # 0
\* the text of elements a..b of a match (a group)
group(s, m, a, b) == SubSeq(s, m.at[a], m.at[b + 1] - 1)
mstart(m) == m.at[1]
mend(m)   == m.at[Len(m.at)]

(***************************************************************************)
(* extract_structured_cv.py: the patterns.                                 *)
(***************************************************************************)
\* the alternatives of HEADING_RE's group 1, in the order of the source
HeadingAlts == <<
  LitI(<<"p","u","b","l","i","c","a","t","i","o","n","s">>),
  LitI(<<"r","e","f","e","r","e","e","d">>) \o << Plus(Space) >> \o LitI(<<"p","u","b","l","i","c","a","t","i","o","n","s">>),
  LitI(<<"s","e","l","e","c","t","e","d">>) \o << Plus(Space) >> \o LitI(<<"p","u","b","l","i","c","a","t","i","o","n","s">>),
  LitI(<<"p","e","e","r">>) \o << Opt({ "-" } \cup Space) >> \o LitI(<<"r","e","v","i","e","w","e","d">>),
  LitI(<<"c","o","n","f","e","r","e","n","c","e">>) \o << Plus(Space) >> \o LitI(<<"p","a","p","e","r","s">>),
  LitI(<<"j","o","u","r","n","a","l">>) \o << Plus(Space) >> \o LitI(<<"a","r","t","i","c","l","e","s">>),
  LitI(<<"p","r","e","s","e","n","t","a","t","i","o","n","s">>),
  LitI(<<"t","a","l","k","s">>),
  LitI(<<"i","n","v","i","t","e","d">>) \o << Plus(Space) >> \o LitI(<<"t","a","l","k","s">>),
  LitI(<<"i","n","v","i","t","e","d">>) \o << Plus(Space) >> \o LitI(<<"p","r","e","s","e","n","t","a","t","i","o","n","s">>),
  LitI(<<"k","e","y","n","o","t","e","s">>),
  LitI(<<"s","e","m","i","n","a","r","s">>),
  LitI(<<"c","o","l","l","o","q","u","i">>) \o << Opt({ "a", "A" }) >> >>
\* (?im)^\s*( ... )\s*:?\s*$
HEADING_RE == [ a \in DOMAIN HeadingAlts |->
                  << Star(Space) >> \o HeadingAlts[a]
                     \o << Star(Space), Opt({ ":" }), Star(Space), EOSM >> ]
\* HEADING_RE.match(s)
heading_match(s) == matchAlt(HEADING_RE, 1, s, 1)
\* m.group(1) of a HEADING_RE match
heading_group(s, m) == group(s, m, 2, Len(HeadingAlts[m.alt]) + 1)

\* ^\s*(?:[-*•–—]|(\d+\.|\[\d+\]))\s+
BULLET_RE == <<
  << Star(Space), One({ "-", "*", BUL, NDASH, MDASH }), Plus(Space) >>,
  << Star(Space), Plus(Digit), One({ "." }), Plus(Space) >>,
  << Star(Space), One({ "[" }), Plus(Digit), One({ "]" }), Plus(Space) >> >>
bullet_match(s) == matchAlt(BULLET_RE, 1, s, 1)

(***************************************************************************)
(* extract_structured_cv.py: load_export_json.  A JSON value is a record   *)
(* [kind, pages, str]: kind "pages" is an object with a "pages" key,       *)
(* "dict" an object without one, "list" an array, "str" a string, "num"    *)
(* a number; a page (or array element) is [ptype, fmt, ls]: ptype "dict"   *)
(* is an object whose lines ls are held under fmt ("text", "tl_str",       *)
(* "tl_obj", "ln_str", "ln_obj"), ptype "str" a bare string ls[1].         *)
(***************************************************************************)
Ok(v)    == [ok |-> TRUE, val |-> v, err |-> "none"]
Raise(e) == [ok |-> FALSE, val |-> << >>, err |-> e]

\* p.get("text", "") of a page object
page_text(p) == IF p.fmt = "text" THEN join(<< NL >>, p.ls) ELSE << >>

load_export_json(data) ==
  IF data.kind = "pages" THEN
    IF \E i \in DOMAIN data.pages : data.pages[i].ptype # "dict"
      THEN Raise("AttributeError")
      ELSE Ok(join(<< NL, NL >>, [ i \in DOMAIN data.pages |-> page_text(data.pages[i]) ]))
  ELSE IF data.kind = "str" THEN Ok(data.str)
  ELSE Raise("ValueError")

(***************************************************************************)
(* extract_structured_cv.py: the Text Normalizer.                          *)
(***************************************************************************)
is_heading_like(s) ==
  LET s_clean == stripSet(strip(s), { ":" })
  IN  /\ nwords(s_clean) <= 6
      /\ (isupper(s_clean) \/ istitle(s_clean))
      /\ ~found(search(<< << One({ ".", "!", "?" }), EOS >> >>, s_clean))
      /\ \/ found(heading_match(s_clean))
         \/ found(search(<< << WB >> \o LitI(<<"p","u","b","l","i","c","a","t","i","o","n","s">>) \o << WB >>,
                            << WB >> \o LitI(<<"t","a","l","k","s">>) \o << WB >>,
                            << WB >> \o LitI(<<"p","r","e","s","e","n","t","a","t","i","o","n","s">>) \o << WB >> >>,
                         s_clean))

\* re.sub(r"(\w)-\n(\w)", r"\1\2", text), from position i on
RECURSIVE dehyphenate(_, _)
dehyphenate(s, i) ==
  IF i > Len(s) THEN << >>
  ELSE IF /\ i + 3 <= Len(s)
          /\ s[i] \in Word /\ s[i+1] = "-" /\ s[i+2] = NL /\ s[i+3] \in Word
    THEN << s[i], s[i+3] >> \o dehyphenate(s, i + 4)
    ELSE << s[i] >> \o dehyphenate(s, i + 1)

\* flush(): out with the stripped buffer appended, when it is not blank
flush(buf, out) == IF strip(buf) # << >> THEN Append(out, strip(buf)) ELSE out

\* the body of the loop over lines, from line i on, with buf and out
RECURSIVE reflow(_, _, _, _)
reflow(lines, i, buf, out) ==
  IF i > Len(lines) THEN flush(buf, out)
  ELSE
    LET nxt == IF i + 1 <= Len(lines) THEN lines[i + 1] ELSE << >>
        s   == rstrip(lines[i])
    IN  IF strip(s) = << >> THEN reflow(lines, i + 1, << >>, flush(buf, out))
        ELSE IF found(bullet_match(s)) THEN reflow(lines, i + 1, s, flush(buf, out))
        ELSE IF buf = << >> THEN reflow(lines, i + 1, s, out)
        ELSE IF is_heading_like(buf) THEN reflow(lines, i + 1, s, flush(buf, out))
        ELSE IF found(search(<< << One({ ".", "!", "?", ":", ";", RAQ, RDQ, DQ }),
                                   Star(Space), EOS >> >>, buf))
          THEN reflow(lines, i + 1, s, flush(buf, out))
        ELSE IF found(bullet_match(nxt)) \/ is_heading_like(nxt)
          THEN reflow(lines, i + 1, s, flush(buf, out))
        ELSE reflow(lines, i + 1, buf \o << SP >> \o lstrip(s), out)

dehyphenate_and_reflow(text) ==
  LET t1 == replace(replace(text, << CR, NL >>, << NL >>), << CR >>, << NL >>)
      t2 == dehyphenate(t1, 1)
  IN  join(<< NL >>, reflow(splitCh(t2, NL), 1, << >>, << >>))

(***************************************************************************)
(* extract_structured_cv.py: the Section Segmenter and the Item Segmenter. *)
(* A dict is kept in insertion order: sections is a sequence of            *)
(* [key, paras].                                                           *)
(***************************************************************************)
has_key(sections, k) == \E i \in DOMAIN sections : sections[i].key = k
\* a dict that forgets a key's paragraphs when the key is set again
setdefault_fresh(sections, k) ==
  IF has_key(sections, k)
    THEN [ i \in DOMAIN sections |-> IF sections[i].key = k THEN [key |-> k, paras |-> << >>]
                                                            ELSE sections[i] ]
    ELSE Append(sections, [key |-> k, paras |-> << >>])
\* sections.setdefault(k, [])
setdefault(sections, k) ==
  IF has_key(sections, k) THEN sections ELSE Append(sections, [key |-> k, paras |-> << >>])
\* sections.setdefault(k, []).append(para)
append_para(sections, k, para) ==
  LET sd == setdefault(sections, k)
  IN  [ i \in DOMAIN sd |-> IF sd[i].key = k
                              THEN [key |-> k, paras |-> Append(sd[i].paras, para)]
                              ELSE sd[i] ]

RECURSIVE split_loop(_, _, _, _)
split_step(paras, i, current, sections, para, m) ==
  IF found(m)
    THEN split_loop(paras, i + 1, lower(heading_group(para, m)),
                    setdefault(sections, lower(heading_group(para, m))))
  ELSE IF strip(para) # << >>
    THEN split_loop(paras, i + 1, current, append_para(sections, current, para))
  ELSE split_loop(paras, i + 1, current, sections)
split_loop(paras, i, current, sections) ==
  IF i > Len(paras) THEN sections
  ELSE split_step(paras, i, current, sections, paras[i], heading_match(paras[i]))

OTHER_LABEL == <<"o","t","h","e","r">>
split_sections(text) == split_loop(splitCh(text, NL), 1, OTHER_LABEL, << >>)

\* re.sub(r"\s{2,}", " ", x)
RECURSIVE collapse_ws(_, _)
collapse_ws(s, i) ==
  IF i > Len(s) THEN << >>
  ELSE LET n == RunLen(s, i, Star(Space), 0)
       IN  IF n >= 2 THEN << SP >> \o collapse_ws(s, i + n)
           ELSE << s[i] >> \o collapse_ws(s, i + 1)
\* the "minor tidy" of one item
tidy(x) == strip(stripSet(collapse_ws(x, 1), { BUL, "-", NDASH, MDASH, SP }))

\* BULLET_RE.sub("", p).strip() of a paragraph that BULLET_RE matches
strip_bullet(p) == strip(Drop(p, mend(bullet_match(p)) - 1))

\* a test that never sees the end of a sentence
EndsSentence_never(buf) == FALSE
EndsSentence(buf) == found(search(<< << One({ ".", "!", "?" }), Star(Space), EOS >> >>, buf))

RECURSIVE items_loop(_, _, _, _)
items_loop(paragraphs, i, buf, items) ==
  IF i > Len(paragraphs)
    THEN IF strip(buf) # << >> THEN Append(items, strip(buf)) ELSE items
  ELSE LET p == paragraphs[i] IN
    IF found(bullet_match(p))
      THEN items_loop(paragraphs, i + 1, strip_bullet(p),
                      IF strip(buf) # << >> THEN Append(items, strip(buf)) ELSE items)
    ELSE IF buf # << >>
      THEN IF ~EndsSentence(buf)
             THEN items_loop(paragraphs, i + 1, buf \o << SP >> \o strip(p), items)
             ELSE items_loop(paragraphs, i + 1, strip(p), Append(items, strip(buf)))
    ELSE items_loop(paragraphs, i + 1, strip(p), items)

section_items(paragraphs) ==
  LET items == items_loop(paragraphs, 1, << >>, << >>)
  IN  [ i \in DOMAIN items |-> tidy(items[i]) ]

(***************************************************************************)
(* extract_structured_cv.py: the Publication Parser.  A dict with string   *)
(* keys is a function whose domain is the set of keys present.             *)
(***************************************************************************)
Put(d, k, v) == [ x \in (DOMAIN d) \cup { k } |-> IF x = k THEN v ELSE d[x] ]

AnyLazy == El("notin", { NL }, 1, -1, TRUE)      \* .+?
Year4 == Rep(Digit, 4, 4)                     \* \d{4}
Tail3 == OneOrEOS({ ".", ",", ";" })          \* (?:[.,;]|$)

\* each pattern with the element of each named group, in group order
PUB_PATTERNS == <<
  [ pat |-> << AnyLazy, Star(Space), One({ "(" }), Star(Space), Year4, Star(Space),
               One({ ")" }), One({ "." }), Plus(Space), AnyLazy, One({ "." }),
               Plus(Space), AnyLazy, Tail3 >>,
    groups |-> << [k |-> "authors", e |-> 1], [k |-> "year", e |-> 5],
                  [k |-> "title", e |-> 10], [k |-> "venue", e |-> 13] >> ],
  [ pat |-> << AnyLazy, One({ "." }), Plus(Space), One({ DQ }), AnyLazy, One({ DQ }),
               One({ "," }), Plus(Space), AnyLazy, One({ "," }), Plus(Space), Year4, Tail3 >>,
    groups |-> << [k |-> "authors", e |-> 1], [k |-> "title", e |-> 5],
                  [k |-> "venue", e |-> 9], [k |-> "year", e |-> 12] >> ],
  [ pat |-> << AnyLazy, One({ "." }), Plus(Space), AnyLazy, One({ "." }), Plus(Space),
               AnyLazy, Plus(Space), Year4, Tail3 >>,
    groups |-> << [k |-> "authors", e |-> 1], [k |-> "title", e |-> 4],
                  [k |-> "venue", e |-> 7], [k |-> "year", e |-> 9] >> ] >>

\* d with d[k] = v when c holds, else d
PutIf(d, c, k, v) == IF c THEN Put(d, k, v) ELSE d

\* d.update({k: v.strip(' "\'') for k, v in m.groupdict().items() if v})
RECURSIVE update_groups(_, _, _, _, _)
update_groups(d, s, m, groups, g) ==
  IF g > Len(groups) THEN d
  ELSE update_groups(PutIf(d, group(s, m, groups[g].e, groups[g].e) # << >>, groups[g].k,
                           stripSet(group(s, m, groups[g].e, groups[g].e), { SP, DQ, "'" })),
                     s, m, groups, g + 1)

\* for pat in PUB_PATTERNS: m = pat.search(s); if m: d.update(...); break
\* (every pattern starts with ^, so a match starts at the first character)
RECURSIVE apply_patterns(_, _, _)
pattern_step(d, s, n, at) ==
  IF at # << >>
    THEN update_groups(d, s, [alt |-> 1, at |-> at], PUB_PATTERNS[n].groups, 1)
    ELSE apply_patterns(d, s, n + 1)
apply_patterns(d, s, n) ==
  IF n > Len(PUB_PATTERNS) THEN d
  ELSE pattern_step(d, s, n, match(PUB_PATTERNS[n].pat, 1, s, 1))

\* re.split(pats, s): the pieces between the successive matches
RECURSIVE re_split(_, _)
split_at(pats, s, m) ==
  IF ~found(m) \/ mend(m) = mstart(m) THEN << s >>
  ELSE << Take(s, mstart(m) - 1) >> \o re_split(pats, Drop(s, mend(m) - 1))
re_split(pats, s) == split_at(pats, s, search(pats, s))

\* \s*(?:,|and|&)\s+
AUTHOR_SEP == << << Star(Space), One({ "," }), Plus(Space) >>,
                 << Star(Space) >> \o Lit(<<"a","n","d">>) \o << Plus(Space) >>,
                 << Star(Space), One({ "&" }), Plus(Space) >> >>

RECURSIVE keep_nonblank(_)
keep_nonblank(parts) ==
  IF parts = << >> THEN << >>
  ELSE IF strip(Head(parts)) # << >>
    THEN << stripSet(strip(Head(parts)), { "." }) >> \o keep_nonblank(Tail(parts))
    ELSE keep_nonblank(Tail(parts))

\* \b(19|20)\d{2}\b
YEAR_RE == << << WB, One({ "1" }), One({ "9" }), Rep(Digit, 2, 2), WB >>,
              << WB, One({ "2" }), One({ "0" }), Rep(Digit, 2, 2), WB >> >>
\* \b10\.\d{4,9}/\S+\b
DOI_RE == << << WB, One({ "1" }), One({ "0" }), One({ "." }), Rep(Digit, 4, 9),
                One({ "/" }), NotPlus(Space), WB >> >>
\* (?i)\barXiv:\s*([0-9]+\.[0-9]+)
ARXIV_RE == << << WB >> \o LitI(<<"a","r","x","i","v">>)
                 \o << One({ ":" }), Star(Space), Plus(Digit), One({ "." }), Plus(Digit) >> >>

\* if doi: d["doi"] = doi.group(0).rstrip(".,;)")
set_doi(d, s, doi) ==
  PutIf(d, found(doi), "doi", rstripSet(group(s, doi, 1, 8), { ".", ",", ";", ")" }))
\* if arxiv: d["arxiv"] = arxiv.group(1)
set_arxiv(d, s, arxiv) == PutIf(d, found(arxiv), "arxiv", group(s, arxiv, 9, 11))
\* if "authors" in d: d["authors_list"] = ...
set_authors_list(d) ==
  PutIf(d, "authors" \in DOMAIN d, "authors_list",
        keep_nonblank(re_split(AUTHOR_SEP, d["authors"])))
\* if "year" not in d: ym = ...; if ym: d["year"] = ym.group(0)
set_year(d, s, ym) == PutIf(d, "year" \notin DOMAIN d /\ found(ym), "year", group(s, ym, 1, 5))

parse_publication(s) ==
  set_year(
    set_authors_list(
      apply_patterns(
        set_arxiv(set_doi([ x \in { "raw" } |-> s ], s, search(DOI_RE, s)),
                  s, search(ARXIV_RE, s)),
        s, 1)),
    s, search(YEAR_RE, s))

\* the stub: returns pub unchanged
enrich_with_crossref(pub) == pub

(***************************************************************************)
(* extract_structured_cv.py: the Talk Parser.                              *)
(***************************************************************************)
TalkTypes == << <<"k","e","y","n","o","t","e">>,
               <<"i","n","v","i","t","e","d",SP,"t","a","l","k">>,
               <<"i","n","v","i","t","e","d",SP,"p","r","e","s","e","n","t","a","t","i","o","n">>,
               <<"s","e","m","i","n","a","r">>,
               <<"c","o","l","l","o","q","u","i","u","m">>,
               <<"t","u","t","o","r","i","a","l">>,
               <<"w","e","b","i","n","a","r">>,
               <<"p","a","n","e","l">> >>
\* (?i)\b(keynote|invited (?:talk|presentation)|seminar|...|panel)\b
TYPE_RE == [ a \in DOMAIN TalkTypes |-> << WB >> \o LitI(TalkTypes[a]) \o << WB >> ]

MONTHS == << <<"j","a","n">>, <<"f","e","b">>, <<"m","a","r">>, <<"a","p","r">>, <<"m","a","y">>, <<"j","u","n">>, <<"j","u","l">>, <<"a","u","g">>, <<"s","e","p">>, <<"s","e","p","t">>, <<"o","c","t">>, <<"n","o","v">>, <<"d","e","c">> >>
\* (?i)\b((?:MONTHS)\s+\d{4}|\d{1,2}/\d{4}|\d{4})\b, the alternatives of group 1
\* written out in order; group 1 is every element but the two \b
DATE_RE == [ a \in 1..(Len(MONTHS) + 2) |->
             IF a <= Len(MONTHS)
               THEN << WB >> \o LitI(MONTHS[a])
                      \o << Star(Lower \cup Upper), Plus(Space), Year4, WB >>
             ELSE IF a = Len(MONTHS) + 1
               THEN << WB, Rep(Digit, 1, 2), One({ "/" }), Year4, WB >>
             ELSE << WB, Year4, WB >> ]

\* “([^”]+)”|\"([^\"]+)\"
QUOTED_RE == << << One({ LDQ }), NotPlus({ RDQ }), One({ RDQ }) >>,
                << One({ DQ }), NotPlus({ DQ }), One({ DQ }) >> >>
\* :\s*([^–—-]+)$
AFTER_COLON_RE == << << One({ ":" }), Star(Space), NotPlus({ NDASH, MDASH, "-" }), EOS >> >>
\* (?i)\b(at|hosted by|@)\s+([^,;]+)
HOST_RE == << << WB >> \o LitI(<<"a","t">>) \o << Plus(Space), NotPlus({ ",", ";" }) >>,
              << WB >> \o LitI(<<"h","o","s","t","e","d",SP,"b","y">>) \o << Plus(Space), NotPlus({ ",", ";" }) >>,
              << WB, One({ "@" }), Plus(Space), NotPlus({ ",", ";" }) >> >>
\* ,\s*([^,;]+)
AFTER_COMMA_RE == << << One({ "," }), Star(Space), NotPlus({ ",", ";" }) >> >>

\* s.split(w)[-1]: what follows the last occurrence of w
RECURSIVE after_last(_, _)
after_last(s, w) ==
  LET k == find(s, w)
  IN  IF k = 0 THEN s ELSE after_last(Drop(s, k + Len(w) - 1), w)

\* if typem: d["type"] = typem.group(1).title()
set_type(d, s, typem) ==
  PutIf(d, found(typem), "type", title(group(s, typem, 2, Len(typem.at) - 2)))
\* if dm: d["date"] = dm.group(1)
set_date(d, s, dm) == PutIf(d, found(dm), "date", group(s, dm, 2, Len(dm.at) - 2))
\* if tm: d["title"] = next(g for g in tm.groups() if g)
\* else: fm = ...; if fm: d["title"] = fm.group(1).strip()
set_title(d, s, tm, fm) ==
  IF found(tm) THEN Put(d, "title", group(s, tm, 2, 2))
  ELSE PutIf(d, found(fm), "title", strip(group(s, fm, 3, 3)))
\* after = s.split(d["title"])[-1]; vm = ...; if vm: d["venue"] = vm.group(1).strip()
set_venue_after(d, after, vm) == PutIf(d, found(vm), "venue", strip(group(after, vm, 3, 3)))
venue_after_title(d, after) == set_venue_after(d, after, search(AFTER_COMMA_RE, after))
\* if hostm: d["venue"] = hostm.group(2).strip()
\* else: if "title" in d: ...
set_venue(d, s, hostm) ==
  IF found(hostm)
    THEN Put(d, "venue", strip(group(s, hostm, Len(hostm.at) - 1, Len(hostm.at) - 1)))
  ELSE IF "title" \in DOMAIN d THEN venue_after_title(d, after_last(s, d["title"]))
  ELSE d

parse_talk(s) ==
  set_venue(
    set_title(
      set_date(
        set_type([ x \in { "raw" } |-> s ], s, search(TYPE_RE, s)),
        s, search(DATE_RE, s)),
      s, search(QUOTED_RE, s), search(AFTER_COLON_RE, s)),
    s, search(HOST_RE, s))

(***************************************************************************)
(* scripts/extract_structured_cv_v2.py: the keyword classes.  A keyword    *)
(* regex is only ever searched for, so it is the list of its alternatives. *)
(***************************************************************************)
\* PUB_KW without its two alternatives that end in \b
PUB_KW == << <<"j","o","u","r","n","a","l">>,
           <<"p","r","o","c","e","e","d","i","n","g","s">>,
           <<"t","r","a","n","s",".">>,
           <<"t","r","a","n","s","a","c","t","i","o","n","s">>,
           <<"a","r","x","i","v">>,
           <<"d","o","i">>,
           <<"v","o","l","u","m","e">>,
           <<"v","o","l",".">>,
           <<"i","s","s","u","e">>,
           <<"p","a","g","e","s">>,
           <<"i","e","e","e">>,
           <<"a","c","m">>,
           <<"s","p","r","i","n","g","e","r">>,
           <<"e","l","s","e","v","i","e","r">>,
           <<"p","r","o","c",".">>,
           <<"c","o","n","f","e","r","e","n","c","e">>,
           <<"s","y","m","p","o","s","i","u","m">>,
           <<"w","o","r","k","s","h","o","p">>,
           <<"b","o","o","k">>,
           <<"c","h","a","p","t","e","r">> >>
\* letter\b|letters\b
PUB_KW_WB == << <<"l","e","t","t","e","r">>, <<"l","e","t","t","e","r","s">> >>
TALK_KW == << <<"k","e","y","n","o","t","e">>,
            <<"i","n","v","i","t","e","d">>,
            <<"t","a","l","k">>,
            <<"p","r","e","s","e","n","t","a","t","i","o","n">>,
            <<"c","o","l","l","o","q","u","i","u","m">>,
            <<"s","e","m","i","n","a","r">>,
            <<"p","a","n","e","l">>,
            <<"g","u","e","s","t",SP,"l","e","c","t","u","r","e">>,
            <<"l","e","c","t","u","r","e">>,
            <<"w","e","b","i","n","a","r">>,
            <<"t","u","t","o","r","i","a","l">>,
            <<"d","e","b","a","t","e">> >>
\* op[- ]?ed is written out as its three matches
MEDIA_NOISE == << <<"p","r","e","s","s">>,
                <<"n","e","w","s">>,
                <<"p","o","d","c","a","s","t">>,
                <<"a","r","t","i","c","l","e">>,
                <<"i","n","t","e","r","v","i","e","w">>,
                <<"m","e","d","i","a">>,
                <<"b","l","o","g">>,
                <<"o","p","e","d">>,
                <<"o","p","-","e","d">>,
                <<"o","p",SP,"e","d">> >>
\* proceedings|conference|journal
NOT_TALK_KW == << <<"p","r","o","c","e","e","d","i","n","g","s">>, <<"c","o","n","f","e","r","e","n","c","e">>, <<"j","o","u","r","n","a","l">> >>

\* re.search(KW, s) is not None, for alternatives that are plain words
kw_search(kws, s) ==
  \E a \in DOMAIN kws : \E i \in 1..(Len(s) + 1) : IsAt(s, kws[a], i)
\* the same for alternatives that end in \b
kw_search_wb(kws, s) ==
  \E a \in DOMAIN kws : \E i \in 1..(Len(s) + 1) :
     IsAt(s, kws[a], i) /\ AtWB(s, i + Len(kws[a]))

(***************************************************************************)
(* scripts/extract_structured_cv_v2.py: load_lines.                        *)
(***************************************************************************)
RECURSIVE strip_all(_)
strip_all(ls) == IF ls = << >> THEN << >> ELSE << strip(Head(ls)) >> \o strip_all(Tail(ls))

\* what one page object p adds to lines (the body of both page loops)
page_lines(p) ==
  LET tl_is_list  == p.ptype = "dict" /\ p.fmt \in { "tl_str", "tl_obj" }
      alt == IF p.ptype = "dict" /\ p.fmt \in { "ln_str", "ln_obj" } THEN p.ls ELSE << >>
  IN  IF tl_is_list /\ p.ls # << >> /\ p.fmt = "tl_str" THEN p.ls
      ELSE IF tl_is_list /\ p.ls # << >> /\ p.fmt = "tl_obj" THEN strip_all(p.ls)
      ELSE strip_all(alt)

RECURSIVE pages_lines(_)
pages_lines(pages) ==
  IF pages = << >> THEN << >> ELSE page_lines(Head(pages)) \o pages_lines(Tail(pages))

\* load_lines returning its empty list where it should raise
load_lines_no_raise(data) ==
  IF data.kind \in { "pages", "list" } /\ \A i \in DOMAIN data.pages : data.pages[i].ptype = "dict"
    THEN Ok(pages_lines(data.pages))
    ELSE Ok(<< >>)
load_lines(data) ==
  IF data.kind = "pages" THEN
    \* p.get on a page that is no object raises
    IF \E i \in DOMAIN data.pages : data.pages[i].ptype # "dict"
      THEN Raise("AttributeError")
      ELSE Ok(pages_lines(data.pages))
  ELSE IF data.kind = "list" THEN Ok(pages_lines(data.pages))
  ELSE IF data.kind = "list"
    THEN Ok(strip_all([ i \in DOMAIN data.pages |-> join(<< >>, data.pages[i].ls) ]))
  ELSE Raise("SystemExit")

(***************************************************************************)
(* scripts/extract_structured_cv_v2.py: the field extractors.  None is     *)
(* JNull, any other value v is JVal(v).                                    *)
(***************************************************************************)
JNull   == [null |-> TRUE, v |-> << >>]
JVal(x) == [null |-> FALSE, v |-> x]

DigitSeq == << "0","1","2","3","4","5","6","7","8","9" >>
DigitVal(c) == (CHOOSE i \in DOMAIN DigitSeq : DigitSeq[i] = c) - 1
\* int(s) of a string of digits
RECURSIVE int(_)
int(s) == IF s = << >> THEN 0 ELSE int(Take(s, Len(s) - 1)) * 10 + DigitVal(s[Len(s)])

\* ^\s*(\d+)\.\s*(.*) with re.S
INDEX_RE == << << Star(Space), Plus(Digit), One({ "." }), Star(Space), El("notin", {}, 0, -1, FALSE) >> >>
index_and_rest(entry, m) ==
  IF found(m)
    THEN [idx |-> JVal(int(group(entry, m, 2, 2))), rest |-> strip(group(entry, m, 5, 5))]
    ELSE [idx |-> JNull, rest |-> strip(entry)]
parse_index_and_rest(entry) == index_and_rest(entry, matchAlt(INDEX_RE, 1, entry, 1))

year_of(s, m) == IF found(m) THEN JVal(int(group(s, m, 1, 5))) ELSE JNull
parse_year(s) == year_of(s, search(YEAR_RE, s))

title_of(s, m, parts) ==
  IF found(m) THEN strip(group(s, m, 2, 2))
  ELSE IF Len(parts) >= 2 THEN strip(parts[2])
  ELSE strip(Take(s, IF Len(s) < 200 THEN Len(s) ELSE 200))
parse_title(s) == title_of(s, search(QUOTED_RE, s), splitCh(s, "."))

parse_authors(s) ==
  IF Contains(s, << "." >>) THEN JVal(strip(splitCh(s, ".")[1])) ELSE JNull

\* \bIn\b\s+([^.,\n]+)
IN_RE == << << WB, One({ "I" }), One({ "n" }), WB, Plus(Space), NotPlus({ ".", ",", NL }) >> >>
\* ,\s*([^,]+?)(?:,\s*(?:[A-Z][a-z]+\s+\d{1,2},\s*\d{4}|\d{4}))
BEFORE_DATE_RE == <<
  << One({ "," }), Star(Space), NotPlusLazy({ "," }), One({ "," }), Star(Space),
     One(Upper), Plus(Lower), Plus(Space), Rep(Digit, 1, 2), One({ "," }), Star(Space), Year4 >>,
  << One({ "," }), Star(Space), NotPlusLazy({ "," }), One({ "," }), Star(Space), Year4 >> >>

venue_of(after, m, m2) ==
  IF found(m) THEN JVal(strip(group(after, m, 6, 6)))
  ELSE IF found(m2) THEN JVal(strip(group(after, m2, 3, 3)))
  ELSE JNull
venue_in(after) == venue_of(after, search(IN_RE, after), search(BEFORE_DATE_RE, after))
\* after = s.split(title, 1)[1] if title and title in s else s
parse_venue(s, ttl) ==
  venue_in(IF ttl # << >> /\ Contains(s, ttl)
             THEN Drop(s, find(s, ttl) + Len(ttl) - 1) ELSE s)

is_media_noise(s) == kw_search(MEDIA_NOISE, lower(s))

\* classify with the talk test taking precedence over the publication test
classify_talk_first(entry_lower) ==
  IF kw_search(TALK_KW, entry_lower) /\ ~kw_search(NOT_TALK_KW, entry_lower) THEN "talk"
  ELSE IF kw_search(PUB_KW, entry_lower) \/ kw_search_wb(PUB_KW_WB, entry_lower) THEN "pub"
  ELSE "unknown"
classify(entry_lower) ==
  LET is_talk == kw_search(TALK_KW, entry_lower) /\ ~kw_search(NOT_TALK_KW, entry_lower)
      is_pub  == kw_search(PUB_KW, entry_lower) \/ kw_search_wb(PUB_KW_WB, entry_lower)
  IN  IF is_talk /\ ~is_pub THEN "talk"
      ELSE IF is_pub THEN "pub"
      ELSE "unknown"

\* (?i)\b(invited|keynote)\b
INVITED_RE == << << WB >> \o LitI(<<"i","n","v","i","t","e","d">>) \o << WB >>,
                 << WB >> \o LitI(<<"k","e","y","n","o","t","e">>) \o << WB >> >>

\* the dict with the title stored where the raw text belongs
obj_of_raw_lost(idx, rest, ttl) ==
  [ index |-> idx, title |-> JVal(ttl), authors |-> parse_authors(rest),
    venue |-> parse_venue(rest, ttl), year |-> parse_year(rest),
    invited |-> found(search(INVITED_RE, rest)), raw |-> ttl ]
\* the dict built for one retained entry
obj_of(idx, rest, ttl) ==
  [ index |-> idx, title |-> JVal(ttl), authors |-> parse_authors(rest),
    venue |-> parse_venue(rest, ttl), year |-> parse_year(rest),
    invited |-> found(search(INVITED_RE, rest)), raw |-> rest ]
make_obj(idx, rest) == obj_of(idx, rest, parse_title(rest))

\* re.split(r'\n(?=\d+\.\s)', text)
NUMBERED_RE == << << Plus(Digit), One({ "." }), One(Space) >> >>
RECURSIVE split_numbered(_, _, _)
split_numbered(s, from, i) ==
  IF i > Len(s) THEN << SubSeq(s, from, Len(s)) >>
  ELSE IF s[i] = NL /\ found(matchAlt(NUMBERED_RE, 1, s, i + 1))
    THEN << SubSeq(s, from, i - 1) >> \o split_numbered(s, i + 1, i + 1)
    ELSE split_numbered(s, from, i + 1)

\* [c.strip() for c in chunks if re.match(r'^\d+\.\s', c.strip())]
RECURSIVE keep_numbered(_)
keep_numbered(chunks) ==
  IF chunks = << >> THEN << >>
  ELSE IF found(matchAlt(NUMBERED_RE, 1, strip(Head(chunks)), 1))
    THEN << strip(Head(chunks)) >> \o keep_numbered(Tail(chunks))
    ELSE keep_numbered(Tail(chunks))

\* [ln for ln in lines if ln]
RECURSIVE nonempty(_)
nonempty(ls) ==
  IF ls = << >> THEN << >>
  ELSE IF Head(ls) # << >> THEN << Head(ls) >> \o nonempty(Tail(ls))
  ELSE nonempty(Tail(ls))

\* "\n".join(lines).replace('“','"').replace('”','"').replace("’","'")
normalize_quotes(lines) ==
  replace(replace(replace(join(<< NL >>, lines), << LDQ >>, << DQ >>),
                  << RDQ >>, << DQ >>), << RSQ >>, << "'" >>)

(***************************************************************************)
(* The inputs.  A run is one invocation of one of the two scripts on one   *)
(* JSON document.                                                          *)
(***************************************************************************)
MaxLines == 3

\* the lines a document is made of
LinePool == { <<"T","a","l","k","s">>,
              <<"p","u","b","l","i","c","a","t","i","o","n","s">>,
              <<"1",".",SP,"K","e","y","n","o","t","e",SP,"x",".">>,
              <<"2",".",SP,"p","a","n","e","l",SP,"a","c","m">>,
              <<"3",".",SP,"t","a","l","k",SP,"n","e","w","s">>,
              <<>>,
              <<"a","b">>,
              <<"4",".",SP,"A",".",SP,"B",".",SP,"C",SP,"2","0","2","0",".">>,
              <<"x","-">> }
\* the lines of the documents that vary in shape
ShapePool == { <<SP,"a","b">>, <<"1",".",SP,"K","e","y","n","o","t","e",SP,"x",".">> }

SeqsUpTo(S, n) == UNION { [ 1..k -> S ] : k \in 0..n }

Page(fmt, ls) == [ptype |-> "dict", fmt |-> fmt, ls |-> ls]
StrElem(l)    == [ptype |-> "str", fmt |-> "none", ls |-> << l >>]
NumElem       == [ptype |-> "num", fmt |-> "none", ls |-> << >>]
Fmts == { "text", "tl_str", "tl_obj", "ln_str", "ln_obj" }

\* the lines ls on one page (cut = 0) or on two, the first holding cut lines
PagesOf(fmt, ls, cut) ==
  IF cut = 0 THEN << Page(fmt, ls) >>
  ELSE << Page(fmt, Take(ls, cut)), Page(fmt, Drop(ls, cut)) >>

PagesDoc(fmt, ls, cut) == [kind |-> "pages", pages |-> PagesOf(fmt, ls, cut), str |-> << >>]
ListDoc(fmt, ls, cut)  == [kind |-> "list",  pages |-> PagesOf(fmt, ls, cut), str |-> << >>]
BareListDoc(ls) == [kind |-> "list", pages |-> [ i \in DOMAIN ls |-> StrElem(ls[i]) ], str |-> << >>]
StrDoc(ls)      == [kind |-> "str", pages |-> << >>, str |-> join(<< NL >>, ls)]
OtherDoc(kind, pages) == [kind |-> kind, pages |-> pages, str |-> << >>]

\* the documents in the shape each script was written for
NativeDocs(p) ==
  { PagesDoc(IF p = "v1" THEN "text" ELSE "tl_str", ls, 0) : ls \in SeqsUpTo(LinePool, MaxLines) }
\* documents of every shape
ShapeDocs ==
  UNION { { PagesDoc(f, ls, c) : f \in Fmts, c \in 0..Len(ls) }
            \cup { ListDoc(f, ls, c) : f \in Fmts, c \in 0..Len(ls) }
            \cup { BareListDoc(ls), StrDoc(ls) } : ls \in SeqsUpTo(ShapePool, MaxLines) }
\* a number, an object without "pages", pages that are not objects
BadDocs == { OtherDoc("num", << >>), OtherDoc("dict", << >>),
             OtherDoc("pages", << NumElem >>), OtherDoc("list", << NumElem >>) }

\* the two lines of the end-to-end example (spec 8)
ExampleLines ==
  << << "1",".",SP,"J",".",SP,"D","o","e",SP,"a","n","d",SP,"A",".",SP,"L",
        "e","e",".",SP,DQ,"F","a","s","t",SP,"P","a","r","s","i","n","g",".",
        DQ,SP,"I","n",SP,"P","r","o","c",".",SP,"A","C","L",",",SP,"2","0",
        "2","1","." >>,
     << "2",".",SP,"I","n","v","i","t","e","d",SP,"T","a","l","k",":",SP,DQ,
        "S","c","a","l","i","n","g",SP,"S","y","s","t","e","m","s",",",DQ,SP,
        "M","I","T",",",SP,"M","a","r","c","h",SP,"2","0","2","2","." >> >>
ExampleDoc == PagesDoc("tl_str", ExampleLines, 0)

\* three more documents: a heading that comes back after another section,
\* bulleted items with continuation paragraphs, and a heading in its
\* shortest spelling
SectionDocs ==
  { PagesDoc("text", <<<<"a",".">>,<<"T","a","l","k","s">>,<<"b",".">>,<<"P","u","b","l","i","c","a","t","i","o","n","s">>,<<"c",".">>,<<"T","a","l","k","s",":">>,<<"d",".">>>>, 0),
    PagesDoc("text", <<<<"T","a","l","k","s">>,<<"-",SP,"a">>,<<>>,<<"b",".">>,<<>>,<<"c">>,<<>>,<<"*",SP,"d">>>>, 0),
    PagesDoc("text", <<<<"C","o","l","l","o","q","u","i">>,<<"1",".",SP,"K","e","y","n","o","t","e",SP,"x",".">>>>, 0) }

Inputs(p) == NativeDocs(p) \cup ShapeDocs \cup BadDocs \cup { ExampleDoc } \cup SectionDocs

(***************************************************************************)
(* The state of a run.                                                     *)
(***************************************************************************)
VARIABLES
  prog,           \* the script run: "v1" or "v2"
  data,           \* json.loads of the input file
  pc,             \* the statement of main about to run
  err,            \* the exception that ended the run, "none" otherwise
  raw,            \* v1: load_export_json's return
  text,           \* v1: the reflowed text; v2: the joined lines
  sections,       \* v1
  pubs_raw,       \* v1
  talks_raw,      \* v1
  publications,   \* v1: publications; v2: pubs
  presentations,  \* v1: presentations; v2: talks
  invited,        \* v1: invited; v2: invited_talks
  non_invited,    \* v1
  lines,          \* v2: load_lines' return
  numbered,       \* v2
  unknown,        \* v2
  n,              \* v2: the number of entries of numbered the loop has taken
  out             \* the texts written to the output file, in order

vars == << prog, data, pc, err, raw, text, sections, pubs_raw, talks_raw, publications,
           presentations, invited, non_invited, lines, numbered, unknown, n, out >>

Init ==
  /\ prog \in { "v1", "v2" }
  /\ data \in Inputs(prog)
  /\ pc = "load"
  /\ err = "none"
  /\ raw = << >> /\ text = << >> /\ sections = << >>
  /\ pubs_raw = << >> /\ talks_raw = << >>
  /\ publications = << >> /\ presentations = << >>
  /\ invited = << >> /\ non_invited = << >>
  /\ lines = << >> /\ numbered = << >> /\ unknown = << >>
  /\ n = 0
  /\ out = << >>

(***************************************************************************)
(* extract_structured_cv.py: main, one action per statement.               *)
(***************************************************************************)
pubs_sec_keys == { <<"p","u","b","l","i","c","a","t","i","o","n","s">>,
                   <<"r","e","f","e","r","e","e","d",SP,"p","u","b","l","i","c","a","t","i","o","n","s">>,
                   <<"s","e","l","e","c","t","e","d",SP,"p","u","b","l","i","c","a","t","i","o","n","s">>,
                   <<"p","e","e","r","-","r","e","v","i","e","w","e","d">>,
                   <<"p","e","e","r",SP,"r","e","v","i","e","w","e","d">>,
                   <<"c","o","n","f","e","r","e","n","c","e",SP,"p","a","p","e","r","s">>,
                   <<"j","o","u","r","n","a","l",SP,"a","r","t","i","c","l","e","s">> }
talks_sec_keys == { <<"p","r","e","s","e","n","t","a","t","i","o","n","s">>,
                    <<"t","a","l","k","s">>,
                    <<"i","n","v","i","t","e","d",SP,"t","a","l","k","s">>,
                    <<"i","n","v","i","t","e","d",SP,"p","r","e","s","e","n","t","a","t","i","o","n","s">>,
                    <<"k","e","y","n","o","t","e","s">>,
                    <<"s","e","m","i","n","a","r","s">>,
                    <<"c","o","l","l","o","q","u","i","a">> }

\* any(h in k_norm for h in keys)
any_in(keys, k_norm) == \E h \in keys : Contains(k_norm, h)

\* the loop over sections.items(): << pubs_raw, talks_raw >>
RECURSIVE route(_, _, _, _)
route_step(secs, i, pr, tr, k_norm, items) ==
  IF any_in(pubs_sec_keys, k_norm) THEN route(secs, i + 1, pr \o items, tr)
  ELSE IF any_in(talks_sec_keys, k_norm) THEN route(secs, i + 1, pr, tr \o items)
  ELSE route(secs, i + 1, pr, tr)
route(secs, i, pr, tr) ==
  IF i > Len(secs) THEN << pr, tr >>
  ELSE route_step(secs, i, pr, tr, lower(secs[i].key), section_items(secs[i].paras))

\* t.get("type", "")
get_type(t) == IF "type" \in DOMAIN t THEN t["type"] ELSE << >>
is_invited(t) == \/ startswith(lower(get_type(t)), <<"i","n","v","i","t","e","d">>)
                 \/ Contains(get_type(t), <<"K","e","y","n","o","t","e">>)
\* a membership test that never finds t: non_invited keeps every talk
in_list_never(t, xs) == FALSE
\* t in xs
in_list(t, xs) == \E j \in DOMAIN xs : xs[j] = t

unparsed_pub(s) == LET d == parse_publication(s)
                   IN  ~\E k \in { "title", "venue", "year" } : k \in DOMAIN d
\* the talk test looking for the type where it should look for the title
unparsed_talk_by_type(s) == "type" \notin DOMAIN parse_talk(s)
unparsed_talk(s) == "title" \notin DOMAIN parse_talk(s)

V1Load ==
  /\ prog = "v1" /\ pc = "load"
  /\ LET r == load_export_json(data)
     IN  IF r.ok THEN raw' = r.val /\ pc' = "reflow" /\ err' = err
         ELSE raw' = raw /\ pc' = "failed" /\ err' = r.err
  /\ UNCHANGED << prog, data, text, sections, pubs_raw, talks_raw, publications,
                  presentations, invited, non_invited, lines, numbered, unknown, n, out >>

V1Reflow ==
  /\ prog = "v1" /\ pc = "reflow"
  /\ text' = dehyphenate_and_reflow(raw)
  /\ pc' = "split"
  /\ UNCHANGED << prog, data, err, raw, sections, pubs_raw, talks_raw, publications,
                  presentations, invited, non_invited, lines, numbered, unknown, n, out >>

V1Split ==
  /\ prog = "v1" /\ pc = "split"
  /\ sections' = split_sections(text)
  /\ pc' = "route"
  /\ UNCHANGED << prog, data, err, raw, text, pubs_raw, talks_raw, publications,
                  presentations, invited, non_invited, lines, numbered, unknown, n, out >>

V1Route ==
  /\ prog = "v1" /\ pc = "route"
  /\ LET r == route(sections, 1, << >>, << >>)
     IN  pubs_raw' = r[1] /\ talks_raw' = r[2]
  /\ pc' = "parse"
  /\ UNCHANGED << prog, data, err, raw, text, sections, publications,
                  presentations, invited, non_invited, lines, numbered, unknown, n, out >>

V1Parse ==
  /\ prog = "v1" /\ pc = "parse"
  /\ publications' = [ i \in DOMAIN pubs_raw |-> enrich_with_crossref(parse_publication(pubs_raw[i])) ]
  /\ presentations' = [ i \in DOMAIN talks_raw |-> parse_talk(talks_raw[i]) ]
  /\ pc' = "partition"
  /\ UNCHANGED << prog, data, err, raw, text, sections, pubs_raw, talks_raw,
                  invited, non_invited, lines, numbered, unknown, n, out >>

V1Partition ==
  /\ prog = "v1" /\ pc = "partition"
  /\ LET inv == SelectSeq(presentations, is_invited)
         NotIn(t) == ~in_list(t, inv)
     IN  invited' = inv /\ non_invited' = SelectSeq(presentations, NotIn)
  /\ pc' = "write"
  /\ UNCHANGED << prog, data, err, raw, text, sections, pubs_raw, talks_raw, publications,
                  presentations, lines, numbered, unknown, n, out >>

V1Write ==
  /\ prog = "v1" /\ pc = "write"
  /\ out' = Append(out,
       [ summary |-> [ n_publications |-> Len(publications),
                       n_presentations |-> Len(presentations),
                       n_invited_talks |-> Len(invited) ],
         publications |-> publications,
         presentations |-> non_invited,
         invited_talks |-> invited,
         unparsed |-> [ publications |-> SelectSeq(pubs_raw, unparsed_pub),
                        presentations |-> SelectSeq(talks_raw, unparsed_talk) ] ])
  /\ pc' = "done"
  /\ UNCHANGED << prog, data, err, raw, text, sections, pubs_raw, talks_raw, publications,
                  presentations, invited, non_invited, lines, numbered, unknown, n >>

(***************************************************************************)
(* scripts/extract_structured_cv_v2.py: main.                              *)
(***************************************************************************)
V2Load ==
  /\ prog = "v2" /\ pc = "load"
  /\ LET r == load_lines(data)
     IN  IF r.ok THEN lines' = r.val /\ pc' = "join" /\ err' = err
         ELSE lines' = lines /\ pc' = "failed" /\ err' = r.err
  /\ UNCHANGED << prog, data, raw, text, sections, pubs_raw, talks_raw, publications,
                  presentations, invited, non_invited, numbered, unknown, n, out >>

V2Join ==
  /\ prog = "v2" /\ pc = "join"
  /\ text' = normalize_quotes(nonempty(lines))
  /\ pc' = "split"
  /\ UNCHANGED << prog, data, err, raw, sections, pubs_raw, talks_raw, publications,
                  presentations, invited, non_invited, lines, numbered, unknown, n, out >>

V2Split ==
  /\ prog = "v2" /\ pc = "split"
  /\ numbered' = keep_numbered(split_numbered(text, 1, 1))
  /\ pc' = "loop"
  /\ UNCHANGED << prog, data, err, raw, text, sections, pubs_raw, talks_raw, publications,
                  presentations, invited, non_invited, lines, unknown, n, out >>

\* the body of "for e in numbered" once idx, rest are known: the entry is
\* skipped, or its dict is appended to the list of its class
Place(skip, cls, obj) ==
  /\ publications' = IF ~skip /\ cls = "pub" THEN Append(publications, obj) ELSE publications
  /\ presentations' = IF ~skip /\ cls = "talk" THEN Append(presentations, obj) ELSE presentations
  /\ unknown' = IF ~skip /\ cls \notin { "pub", "talk" } THEN Append(unknown, obj) ELSE unknown
\* the loop body without the media-noise test
TakeEntry_keep_noise(ir) ==
  Place(ir.rest = << >>, classify(lower(ir.rest)), make_obj(ir.idx, ir.rest))
TakeEntry(ir) ==
  Place(ir.rest = << >> \/ is_media_noise(ir.rest), classify(lower(ir.rest)),
        make_obj(ir.idx, ir.rest))

\* one pass of "for e in numbered"
V2Entry ==
  /\ prog = "v2" /\ pc = "loop" /\ n < Len(numbered)
  /\ TakeEntry(parse_index_and_rest(numbered[n + 1]))
  /\ n' = n + 1
  /\ UNCHANGED << prog, data, pc, err, raw, text, sections, pubs_raw, talks_raw,
                  invited, non_invited, lines, numbered, out >>

V2Invited ==
  /\ prog = "v2" /\ pc = "loop" /\ n = Len(numbered)
  /\ LET Flag(t) == t.invited IN invited' = SelectSeq(presentations, Flag)
  /\ pc' = "write"
  /\ UNCHANGED << prog, data, err, raw, text, sections, pubs_raw, talks_raw, publications,
                  presentations, non_invited, lines, numbered, unknown, n, out >>

V2Write ==
  /\ prog = "v2" /\ pc = "write"
  /\ out' = Append(out,
       [ stats |-> [ total_numbered_items |-> Len(numbered),
                     publications |-> Len(publications),
                     talks |-> Len(presentations),
                     invited_talks |-> Len(invited),
                     unknown |-> Len(unknown) ],
         publications |-> publications,
         presentations |-> presentations,
         invited_talks |-> invited ])
  /\ pc' = "done"
  /\ UNCHANGED << prog, data, err, raw, text, sections, pubs_raw, talks_raw, publications,
                  presentations, invited, non_invited, lines, numbered, unknown, n >>

Next ==
  \/ V1Load \/ V1Reflow \/ V1Split \/ V1Route \/ V1Parse \/ V1Partition \/ V1Write
  \/ V2Load \/ V2Join \/ V2Split \/ V2Entry \/ V2Invited \/ V2Write

Spec == Init /\ [][Next]_vars

(***************************************************************************)
(* The properties.                                                         *)
(***************************************************************************)
\* the report written by a finished run
Report == out[1]
\* the three record lists of the report
ReportLists == << Report.publications, Report.presentations, Report.invited_talks >>
Occurs(x, xs) == \E j \in DOMAIN xs : xs[j] = x
CountRaw(xs, r) == Cardinality({ j \in DOMAIN xs : xs[j]["raw"] = r })
CountIn(xs, x) == Cardinality({ j \in DOMAIN xs : xs[j] = x })

\* C1: in the report of every finished run of either script, no talk record
\* is in both invited_talks and presentations, and the two lists together
\* hold exactly the talk records of the run.
C1_PartitionLaw ==
  pc = "done" =>
    /\ \A i \in DOMAIN Report.invited_talks : ~Occurs(Report.invited_talks[i], Report.presentations)
    /\ \A i \in DOMAIN presentations :
         Occurs(presentations[i], Report.invited_talks) \/ Occurs(presentations[i], Report.presentations)
    /\ \A i \in DOMAIN Report.invited_talks : Occurs(Report.invited_talks[i], presentations)
    /\ \A i \in DOMAIN Report.presentations : Occurs(Report.presentations[i], presentations)

\* C2: the paragraphs the normalizer returned are a fixed point of the
\* normalizer: dehyphenate_and_reflow(dehyphenate_and_reflow(T)) = dehyphenate_and_reflow(T).
C2_NormalizerIdempotent ==
  (prog = "v1" /\ pc \in { "split", "route", "parse", "partition", "write", "done" })
    => dehyphenate_and_reflow(text) = text

\* the section labels of the two families (spec 4.2)
PubsFamily == { <<"p","u","b","l","i","c","a","t","i","o","n","s">>,
                <<"r","e","f","e","r","e","e","d",SP,"p","u","b","l","i","c","a","t","i","o","n","s">>,
                <<"s","e","l","e","c","t","e","d",SP,"p","u","b","l","i","c","a","t","i","o","n","s">>,
                <<"p","e","e","r","-","r","e","v","i","e","w","e","d">>,
                <<"c","o","n","f","e","r","e","n","c","e",SP,"p","a","p","e","r","s">>,
                <<"j","o","u","r","n","a","l",SP,"a","r","t","i","c","l","e","s">> }
TalksFamily == { <<"p","r","e","s","e","n","t","a","t","i","o","n","s">>,
                 <<"t","a","l","k","s">>,
                 <<"i","n","v","i","t","e","d",SP,"t","a","l","k","s">>,
                 <<"i","n","v","i","t","e","d",SP,"p","r","e","s","e","n","t","a","t","i","o","n","s">>,
                 <<"k","e","y","n","o","t","e","s">>,
                 <<"s","e","m","i","n","a","r","s">>,
                 <<"c","o","l","l","o","q","u","i","a">> }
\* the items of the sections of a family, in section order
RECURSIVE FamilyItems(_, _)
FamilyItems(secs, fam) ==
  IF secs = << >> THEN << >>
  ELSE (IF Head(secs).key \in fam THEN section_items(Head(secs).paras) ELSE << >>)
         \o FamilyItems(Tail(secs), fam)

\* C3: in a finished run of the structural script, publications holds one
\* record per item of the publications-family sections, in item order; every
\* item of the talks-family sections has as many records in presentations and
\* invited_talks together as the item occurs; and the summary counts are the
\* item counts.
C3_Conservation ==
  (prog = "v1" /\ pc = "done") =>
    LET pub_items  == FamilyItems(sections, PubsFamily)
        talk_items == FamilyItems(sections, TalksFamily)
    IN  /\ Len(Report.publications) = Len(pub_items)
        /\ \A i \in DOMAIN pub_items : Report.publications[i]["raw"] = pub_items[i]
        /\ Len(Report.presentations) + Len(Report.invited_talks) = Len(talk_items)
        /\ \A i \in DOMAIN talk_items :
             CountRaw(Report.presentations, talk_items[i]) + CountRaw(Report.invited_talks, talk_items[i])
               = CountIn(talk_items, talk_items[i])
        /\ Report.summary.n_publications = Len(pub_items)
        /\ Report.summary.n_presentations = Len(talk_items)
\* a finished structural run that put one talk item in each of the two lists
C3_Witness ==
  prog = "v1" /\ pc = "done" /\ Report.invited_talks # << >> /\ Report.presentations # << >>

\* the entry of numbered a v2 record was built from
FromEntry(obj) ==
  \E k \in 1..n : /\ obj.raw = parse_index_and_rest(numbered[k]).rest
                  /\ obj.index = parse_index_and_rest(numbered[k]).idx
\* C4: every record carries, under raw, the text of the item it was parsed
\* from: the v1 records the items of pubs_raw and talks_raw, position by
\* position, the v2 records the text that follows the index of their entry;
\* and the records of the report still carry it.
C4_RawPreserved ==
  /\ (prog = "v1" /\ pc \in { "partition", "write", "done" }) =>
       /\ Len(publications) = Len(pubs_raw) /\ Len(presentations) = Len(talks_raw)
       /\ \A i \in DOMAIN pubs_raw : publications[i]["raw"] = pubs_raw[i]
       /\ \A i \in DOMAIN talks_raw : presentations[i]["raw"] = talks_raw[i]
  /\ (prog = "v1" /\ pc = "done") =>
       /\ \A i \in DOMAIN pubs_raw : Report.publications[i]["raw"] = pubs_raw[i]
       /\ \A i \in DOMAIN Report.presentations :
            \E j \in DOMAIN talks_raw : Report.presentations[i]["raw"] = talks_raw[j]
       /\ \A i \in DOMAIN Report.invited_talks :
            \E j \in DOMAIN talks_raw : Report.invited_talks[i]["raw"] = talks_raw[j]
  /\ prog = "v2" =>
       /\ \A i \in DOMAIN publications : FromEntry(publications[i])
       /\ \A i \in DOMAIN presentations : FromEntry(presentations[i])
       /\ \A i \in DOMAIN unknown : FromEntry(unknown[i])
       /\ \A i \in DOMAIN invited : FromEntry(invited[i])
  /\ (prog = "v2" /\ pc = "done") =>
       \A l \in DOMAIN ReportLists : \A i \in DOMAIN ReportLists[l] : FromEntry(ReportLists[l][i])
\* a finished structural run whose publication record took its title, venue
\* and year from a structural pattern
C4_Witness ==
  /\ prog = "v1" /\ pc = "done"
  /\ \E i \in DOMAIN Report.publications :
       { "title", "venue", "year", "raw" } \subseteq DOMAIN Report.publications[i]

\* the lines of the text load_export_json returned
RawLines == splitCh(replace(replace(raw, << CR, NL >>, << NL >>), << CR >>, << NL >>), NL)
\* the paragraphs the normalizer returned
Paragraphs == splitCh(text, NL)
\* C5: when a heading-shaped line of the heading vocabulary is followed by a
\* non-blank body line (neither a heading nor a bullet), no paragraph of the
\* normalizer's output contains both the heading and the text of the line
\* after it.
C5_HeadingBreak ==
  (prog = "v1" /\ pc \in { "split", "route", "parse", "partition", "write", "done" }) =>
    \A i \in 1..(Len(RawLines) - 1) :
      (/\ found(heading_match(strip(RawLines[i]))) /\ is_heading_like(RawLines[i])
       /\ strip(RawLines[i + 1]) # << >>
       /\ ~found(heading_match(strip(RawLines[i + 1])))
       /\ ~found(bullet_match(RawLines[i + 1]))) =>
        \A j \in DOMAIN Paragraphs :
          ~(Contains(Paragraphs[j], strip(RawLines[i])) /\ Contains(Paragraphs[j], strip(RawLines[i + 1])))

HasTalkKw(e) == kw_search(TALK_KW, e)
HasPubKw(e)  == kw_search(PUB_KW, e) \/ kw_search_wb(PUB_KW_WB, e)
HasPCJ(e)    == kw_search(NOT_TALK_KW, e)
\* the rule as the specification words it
ClaimedClass(e) ==
  IF HasTalkKw(e) /\ ~HasPCJ(e) THEN "talk" ELSE IF HasPubKw(e) THEN "pub" ELSE "unknown"
\* the rule with a talk keyword yielding to any publication keyword
AmendedClass(e) ==
  IF HasTalkKw(e) /\ ~HasPubKw(e) THEN "talk" ELSE IF HasPubKw(e) THEN "pub" ELSE "unknown"
PlacedBy(rule(_)) ==
  /\ \A i \in DOMAIN publications : rule(lower(publications[i].raw)) = "pub"
  /\ \A i \in DOMAIN presentations : rule(lower(presentations[i].raw)) = "talk"
  /\ \A i \in DOMAIN unknown : rule(lower(unknown[i].raw)) = "unknown"

\* C6 as claimed: every retained entry is a talk if it has a talk keyword and
\* none of proceedings, conference, journal; else a publication if it has a
\* publication keyword; else unknown.
C6_ClassifyAsClaimed == prog = "v2" => PlacedBy(ClaimedClass)
\* C6 as amended: every retained entry is a talk if it has a talk keyword and
\* no publication keyword at all; else a publication if it has a publication
\* keyword; else unknown.
C6_ClassifyAmended == prog = "v2" => PlacedBy(AmendedClass)
\* an entry with a talk keyword and a publication keyword other than
\* proceedings, conference, journal was placed in publications
C6_Witness ==
  /\ prog = "v2"
  /\ \E i \in DOMAIN publications :
       HasTalkKw(lower(publications[i].raw)) /\ ~HasPCJ(lower(publications[i].raw))

EntryRest(k) == parse_index_and_rest(numbered[k]).rest
\* C7: no record of the generic script's lists comes from an entry whose
\* text matches the media-noise keywords; a finished run counts such an
\* entry in total_numbered_items only: the publication, talk and unknown
\* counts add up to the number of entries that do not match.
C7_NoiseExcluded ==
  prog = "v2" =>
    /\ \A i \in DOMAIN publications : ~is_media_noise(publications[i].raw)
    /\ \A i \in DOMAIN presentations : ~is_media_noise(presentations[i].raw)
    /\ \A i \in DOMAIN invited : ~is_media_noise(invited[i].raw)
    /\ \A i \in DOMAIN unknown : ~is_media_noise(unknown[i].raw)
    /\ pc = "done" =>
         /\ \A l \in DOMAIN ReportLists : \A i \in DOMAIN ReportLists[l] :
              ~is_media_noise(ReportLists[l][i].raw)
         /\ Report.stats.total_numbered_items = Len(numbered)
         /\ Report.stats.publications + Report.stats.talks + Report.stats.unknown
              = Cardinality({ k \in DOMAIN numbered :
                                EntryRest(k) # << >> /\ ~is_media_noise(EntryRest(k)) })
\* a finished generic run that kept a talk and dropped a noise entry that
\* has a talk keyword
C7_Witness ==
  /\ prog = "v2" /\ pc = "done" /\ Report.presentations # << >>
  /\ \E k \in DOMAIN numbered :
       is_media_noise(EntryRest(k)) /\ HasTalkKw(lower(EntryRest(k)))

\* C8: no record of the report holds a field with a null value (a v1 dict
\* holds only the keys it was given a value for).
C8_SparseRecords ==
  (prog = "v2" /\ pc = "done") =>
    \A l \in DOMAIN ReportLists : \A i \in DOMAIN ReportLists[l] :
      \A k \in { "index", "title", "authors", "venue", "year" } : ~ReportLists[l][i][k].null

\* the lines of the document, page by page
RECURSIVE DocLines(_)
DocLines(pages) == IF pages = << >> THEN << >> ELSE Head(pages).ls \o DocLines(Tail(pages))
InputLines == IF data.kind = "str" THEN splitCh(data.str, NL) ELSE DocLines(data.pages)
\* the shapes each loader names: v1 pages with text, or a string; v2 pages
\* (under "pages" or in a list) with text_lines or lines, or a list of strings
LoaderShape ==
  IF prog = "v1"
    THEN \/ data.kind = "str"
         \/ data.kind = "pages" /\ \A i \in DOMAIN data.pages :
              data.pages[i].ptype = "dict" /\ data.pages[i].fmt = "text"
    ELSE \/ data.kind \in { "pages", "list" } /\ \A i \in DOMAIN data.pages :
              data.pages[i].ptype = "dict" /\ data.pages[i].fmt \in { "tl_str", "tl_obj", "ln_str", "ln_obj" }
         \/ data.kind = "list" /\ \A i \in DOMAIN data.pages : data.pages[i].ptype = "str"
\* the line sequence the loader returned
Loaded == IF prog = "v1" THEN splitCh(raw, NL) ELSE lines
\* C9: for a document in a shape its loader names, the loader returns the
\* non-empty lines of the document, in page order then line order.
C9_LoaderKeepsLines ==
  (pc # "load" /\ LoaderShape) =>
    /\ err = "none"
    /\ nonempty(strip_all(Loaded)) = nonempty(strip_all(InputLines))

NothingRan ==
  /\ raw = << >> /\ text = << >> /\ sections = << >> /\ pubs_raw = << >> /\ talks_raw = << >>
  /\ publications = << >> /\ presentations = << >> /\ invited = << >> /\ non_invited = << >>
  /\ lines = << >> /\ numbered = << >> /\ unknown = << >> /\ n = 0
\* C10: a document in none of the shapes its loader accepts (v1: an object
\* with pages, a string; v2: an object with pages, a list) ends the run in
\* the loader; a run the loader ended has an error, ran no
\* later step, takes no further step and wrote nothing; the output is
\* written at most once, as the last step, and holds the records of the run.
C10_FatalShapeError ==
  /\ data.kind \notin (IF prog = "v1" THEN { "pages", "str" } ELSE { "pages", "list" })
       => pc \in { "load", "failed" }
  /\ pc = "failed" => (err # "none" /\ out = << >> /\ NothingRan /\ ~ENABLED Next)
  /\ Len(out) <= 1
  /\ out # << >> =>
       /\ pc = "done"
       /\ Report.publications = publications
       /\ Report.invited_talks = invited
       /\ Report.presentations = IF prog = "v1" THEN non_invited ELSE presentations
       /\ prog = "v2" => n = Len(numbered)
\* a run on a number or on an object without pages, ended by the loader
C10_Witness ==
  /\ pc = "failed" /\ data.kind \in { "num", "dict" }
  /\ err \in { "ValueError", "SystemExit" } /\ out = << >>

\* the raws whose record, at the same position, has none of keys
RECURSIVE RawsLacking(_, _, _, _)
RawsLacking(raws, recs, keys, i) ==
  IF i > Len(raws) THEN << >>
  ELSE (IF keys \cap DOMAIN recs[i] = {} THEN << raws[i] >> ELSE << >>)
         \o RawsLacking(raws, recs, keys, i + 1)

\* C11: in a finished structural run every item has its record, be it raw
\* text only: publications holds one record per publication item and every
\* talk record is in presentations or invited_talks; unparsed.publications
\* lists, in order, exactly the items whose publication record has none of
\* title, venue, year, and unparsed.presentations exactly the items whose
\* talk record has no title.
C11_UnparsedConsistent ==
  (prog = "v1" /\ pc = "done") =>
    /\ Len(Report.publications) = Len(pubs_raw)
    /\ Len(presentations) = Len(talks_raw)
    /\ \A i \in DOMAIN presentations :
         Occurs(presentations[i], Report.presentations) \/ Occurs(presentations[i], Report.invited_talks)
    /\ Report.unparsed.publications
         = RawsLacking(pubs_raw, Report.publications, { "title", "venue", "year" }, 1)
    /\ Report.unparsed.presentations = RawsLacking(talks_raw, presentations, { "title" }, 1)
\* a finished structural run with a publication record of raw text only,
\* listed as unparsed, next to a parsed one that is not
C11_Witness ==
  /\ prog = "v1" /\ pc = "done"
  /\ Len(Report.unparsed.publications) = 1
  /\ \E i, j \in DOMAIN Report.publications :
       /\ DOMAIN Report.publications[i] = { "raw" }
       /\ Report.publications[i]["raw"] = Report.unparsed.publications[1]
       /\ "title" \in DOMAIN Report.publications[j]

\* C12: the generic script run on the two lines of the end-to-end example
\* writes exactly one publication, with title "Fast Parsing", authors
\* "J. Doe and A. Lee", venue "Proc. ACL" and year 2021, and exactly one
\* invited talk, with title "Scaling Systems", venue "MIT", date
\* "March 2022" and invited true.
C12_EndToEndExample ==
  (prog = "v2" /\ data = ExampleDoc /\ pc = "done") =>
    /\ Len(Report.publications) = 1
    /\ Len(Report.invited_talks) = 1
    /\ Report.publications[1].year = JVal(2021)
    /\ Report.invited_talks[1].invited
    /\ Report.publications[1].title = JVal(<<"F","a","s","t",SP,"P","a","r","s","i","n","g">>)
    /\ Report.publications[1].authors = JVal(<<"J",".",SP,"D","o","e",SP,"a","n","d",SP,"A",".",SP,"L","e","e">>)
    /\ Report.publications[1].venue = JVal(<<"P","r","o","c",".",SP,"A","C","L">>)
    /\ Report.invited_talks[1].title = JVal(<<"S","c","a","l","i","n","g",SP,"S","y","s","t","e","m","s">>)
    /\ Report.invited_talks[1].venue = JVal(<<"M","I","T">>)
    /\ "date" \in DOMAIN Report.invited_talks[1]
    /\ Report.invited_talks[1]["date"] = <<"M","a","r","c","h",SP,"2","0","2","2">>

IsHeading(p) == found(heading_match(p))
HeadingLabel(p) == lower(heading_group(p, heading_match(p)))
\* the headings among the first i - 1 paragraphs
HeadingsBefore(ps, i) == { j \in 1..(i - 1) : IsHeading(ps[j]) }
Latest(S) == CHOOSE j \in S : \A k \in S : k <= j
\* the label active at paragraph i: that of the most recent heading
ActiveLabel(ps, i) ==
  IF HeadingsBefore(ps, i) = {} THEN OTHER_LABEL
  ELSE HeadingLabel(ps[Latest(HeadingsBefore(ps, i))])
IsContent(ps, i) == ~IsHeading(ps[i]) /\ strip(ps[i]) # << >>
\* the content paragraphs whose active label is k, in input order
RECURSIVE ContentOf(_, _, _)
ContentOf(ps, k, i) ==
  IF i > Len(ps) THEN << >>
  ELSE (IF IsContent(ps, i) /\ ActiveLabel(ps, i) = k THEN << ps[i] >> ELSE << >>)
         \o ContentOf(ps, k, i + 1)

\* C13: when split_sections has returned, no label has two buckets; the bucket of a label
\* holds exactly the non-blank, non-heading paragraphs whose most recent
\* heading has that label ("other" before any heading), in input order; every
\* such paragraph and every heading has its bucket; no bucket holds a
\* heading.
C13_SectionAssignment ==
  (prog = "v1" /\ pc = "route") =>
    /\ \A a, b \in DOMAIN sections : sections[a].key = sections[b].key => a = b
    /\ \A s \in DOMAIN sections :
         /\ sections[s].paras = ContentOf(Paragraphs, sections[s].key, 1)
         /\ \A j \in DOMAIN sections[s].paras : ~IsHeading(sections[s].paras[j])
    /\ \A i \in DOMAIN Paragraphs :
         /\ IsContent(Paragraphs, i) => has_key(sections, ActiveLabel(Paragraphs, i))
         /\ IsHeading(Paragraphs[i]) => has_key(sections, HeadingLabel(Paragraphs[i]))
\* a label whose heading came back after another section was opened, with a
\* paragraph kept from before and one added after, and a paragraph under
\* "other"
C13_Witness ==
  /\ prog = "v1" /\ pc = "route"
  /\ \E s, o \in DOMAIN sections :
       /\ sections[o].key = OTHER_LABEL /\ sections[o].paras # << >>
       /\ sections[s].key # OTHER_LABEL /\ Len(sections[s].paras) = 2
       /\ \E i, j, k \in DOMAIN Paragraphs :
            /\ i < j /\ j < k
            /\ IsHeading(Paragraphs[i]) /\ HeadingLabel(Paragraphs[i]) = sections[s].key
            /\ IsHeading(Paragraphs[j]) /\ HeadingLabel(Paragraphs[j]) # sections[s].key
            /\ IsHeading(Paragraphs[k]) /\ HeadingLabel(Paragraphs[k]) = sections[s].key

\* the text a paragraph adds to an item: its text without the marker
Piece(p) == IF found(bullet_match(p)) THEN strip_bullet(p) ELSE strip(p)
\* the piece ends in terminal sentence punctuation
EndsInStop(x) ==
  LET t == rstrip(x) IN t # << >> /\ t[Len(t)] \in { ".", "!", "?" }
\* paragraph i opens an item: the first one, a bullet, or the one after a
\* paragraph that ended the sentence
Opens(ps, i) == i = 1 \/ found(bullet_match(ps[i])) \/ EndsInStop(Piece(ps[i - 1]))
\* the last paragraph of the item that paragraph i opens
RECURSIVE ItemEnd(_, _)
ItemEnd(ps, i) == IF i < Len(ps) /\ ~Opens(ps, i + 1) THEN ItemEnd(ps, i + 1) ELSE i
\* the pieces of paragraphs a..b joined by single spaces
RECURSIVE Pieces(_, _, _)
Pieces(ps, a, b) ==
  IF a = b THEN Piece(ps[a]) ELSE Piece(ps[a]) \o << SP >> \o Pieces(ps, a + 1, b)
\* one item per opening paragraph, in paragraph order, finalized by tidy
RECURSIVE GroupItems(_, _)
GroupItems(ps, i) ==
  IF i > Len(ps) THEN << >>
  ELSE << tidy(Pieces(ps, i, ItemEnd(ps, i))) >> \o GroupItems(ps, ItemEnd(ps, i) + 1)
\* the grouped items of the sections of a family, in section order
RECURSIVE FamilyGroups(_, _)
FamilyGroups(secs, fam) ==
  IF secs = << >> THEN << >>
  ELSE (IF Head(secs).key \in fam THEN GroupItems(Head(secs).paras, 1) ELSE << >>)
         \o FamilyGroups(Tail(secs), fam)

\* C14: the items of a section are its paragraphs grouped in order, each
\* paragraph in exactly one item: a paragraph with a bullet or number marker
\* opens an item, with the marker stripped; a paragraph without one opens an
\* item only when the text before it ends in terminal sentence punctuation,
\* and else continues the item in progress; each item is the text of its
\* paragraphs joined by single spaces and tidied.
C14_ItemSegmentation ==
  (prog = "v1" /\ pc \in { "parse", "partition", "write", "done" }) =>
    /\ pubs_raw = FamilyGroups(sections, PubsFamily)
    /\ talks_raw = FamilyGroups(sections, TalksFamily)
\* a section with a bulleted item continued by a paragraph that ends the
\* sentence, a paragraph that seeds the next item, and a bullet closing it
C14_Witness ==
  /\ prog = "v1" /\ pc = "done" /\ Len(talks_raw) = 3
  /\ \E s \in DOMAIN sections :
       /\ Len(sections[s].paras) = 4
       /\ found(bullet_match(sections[s].paras[1]))
       /\ ~Opens(sections[s].paras, 2)
       /\ Opens(sections[s].paras, 3) /\ ~found(bullet_match(sections[s].paras[3]))
       /\ found(bullet_match(sections[s].paras[4]))

\* the labels of the sections a heading opened
HeadingKeys == { sections[i].key : i \in DOMAIN sections } \ { OTHER_LABEL }
\* C15: once the sections are routed, every item of every section opened by
\* a heading is in pubs_raw or in talks_raw, and the two lists together hold
\* as many items as those sections have.
C15_RoutingComplete ==
  (prog = "v1" /\ pc \in { "parse", "partition", "write", "done" }) =>
    /\ Len(pubs_raw) + Len(talks_raw) = Len(FamilyItems(sections, HeadingKeys))
    /\ \A i \in DOMAIN FamilyItems(sections, HeadingKeys) :
         \/ Occurs(FamilyItems(sections, HeadingKeys)[i], pubs_raw)
         \/ Occurs(FamilyItems(sections, HeadingKeys)[i], talks_raw)

====
